---- MODULE Spec2Model ----
(***************************************************************************)
(* Model of the flashcore vector index (src/flashcore/src/vector_search.cpp)*)
(* and of its Python wrapper PyHNSWIndex                                   *)
(* (src/flashcore/bindings/python/pybind11_bindings.cpp).                  *)
(*                                                                         *)
(* Floats are modelled by small integers (every value used is exactly      *)
(* representable as a float); std::sqrt is modelled as a fixed-point       *)
(* square root with Scale fractional steps per unit.                       *)
(***************************************************************************)
EXTENDS Integers, Sequences, FiniteSets, Bags, TLC

\* ---- bounds of the model ----
MaxCap == 2          \* largest max_elements passed to create_hnsw_index
MaxEntries == 2      \* cap on the stored count (reached when max_elements < 0)
MaxReleases == 2     \* cap on the number of delete executions
MaxId == 2           \* identifiers are 1..MaxId
Scale == 16          \* fixed-point resolution of the modelled sqrt

\* ---- input domains ----
Ids == 1..MaxId                 \* identifiers passed to add_vector_to_index
Vals == {0, 1}                  \* components of the vectors and queries
DimChoices == {-1, 0, 1, 2}     \* dimensions passed to create_hnsw_index
CapChoices == -1..MaxCap        \* max_elements passed to create_hnsw_index
KChoices == -1..(MaxEntries + 1)

Min(a, b) == IF a < b THEN a ELSE b
Max(a, b) == IF a > b THEN a ELSE b

\* caller buffers of at least `d` floats (shorter buffers are out-of-bounds
\* reads): exactly d components, or d components and one in excess
ExcessTails == {<<>>} \cup {<<x>> : x \in Vals}
InputVectors(d) == {v \o e : v \in [1..Max(d, 0) -> Vals], e \in ExcessTails}
QueryVectors(d) == [1..Max(d, 0) -> Vals]

VARIABLES
    handle,            \* "none" | "live" | "freed": the hnsw_index_t* of the caller
    dimensions,        \* index->dimensions
    max_elements,      \* index->max_elements
    vectors,           \* index->vectors: sequence of [id, vec]
    call,              \* the last call: operation, arguments, return value
    result_ids,        \* slots of result_ids written by the last call, in order
    result_distances,  \* slots of result_distances written by the last call, in order
    py_raised,         \* the last PyHNSWIndex call raised a Python exception
    py_list,           \* the py::list returned by the last PyHNSWIndex::search
    releases,          \* number of times `delete index` ran on the handle
    crashed            \* the process was aborted

vars == <<handle, dimensions, max_elements, vectors, call, result_ids,
          result_distances, py_raised, py_list, releases, crashed>>

NoCall == [op |-> "none", id |-> 0, vector |-> <<>>, k |-> 0, ret |-> 0, threw |-> FALSE]

\* ---- comparisons between std::vector::size() and an int ----
\* `size >= m` with m an int converted to size_t: a negative m becomes
\* 2^64 + m, which no vector size reaches.
SizeGE(size, m) == IF m < 0 THEN FALSE ELSE size >= m
\* `k > size` with k an int converted to size_t
SizeLT(size, k) == IF k < 0 THEN TRUE ELSE k > size

\* ---- Euclidean distance, vector_search.cpp:50-56 ----
RECURSIVE SumSquares(_, _, _)
SumSquares(q, v, n) ==
    IF n <= 0 THEN 0
    ELSE SumSquares(q, v, n - 1) + (q[n] - v[n]) * (q[n] - v[n])

Sqrt(x) == CHOOSE r \in 0..(Scale * x) :
               r * r <= Scale * Scale * x /\ (r + 1) * (r + 1) > Scale * Scale * x

EuclideanDistance(q, v, dims) == Sqrt(SumSquares(q, v, dims))

\* the (distance, id) pairs in storage order, vector_search.cpp:44-59
ComputeDistances(vecs, q, dims) ==
    [i \in 1..Len(vecs) |->
        [first |-> EuclideanDistance(q, vecs[i].vec, dims), second |-> vecs[i].id]]

\* operator< of std::pair<float,int>
PairLess(a, b) ==
    \/ a.first < b.first
    \/ a.first = b.first /\ a.second < b.second

RECURSIVE InsertSorted(_, _)
InsertSorted(p, s) ==
    IF s = <<>> THEN <<p>>
    ELSE IF PairLess(p, Head(s)) THEN <<p>> \o s
    ELSE <<Head(s)>> \o InsertSorted(p, Tail(s))

RECURSIVE SortPairsRec(_)
SortPairsRec(s) ==
    IF s = <<>> THEN <<>> ELSE InsertSorted(Head(s), SortPairsRec(Tail(s)))

\* mutant: no sort at all
SortPairs_unsorted(s) == s

\* mutant: a sort that also drops repeated pairs (an ordered set)
RECURSIVE Unique(_)
Unique(s) ==
    IF Len(s) <= 1 THEN s
    ELSE IF s[1] = s[2] THEN Unique(Tail(s))
    ELSE <<Head(s)>> \o Unique(Tail(s))
SortPairs_unique(s) == Unique(SortPairsRec(s))

\* std::sort(distances.begin(), distances.end()), vector_search.cpp:62
SortPairs(s) == SortPairsRec(s)

\* ---- add_vector_to_index, vector_search.cpp:28-36 ----
\* The result is the return value and the index's sequence afterwards.  With
\* dimensions < 0 the range constructor of std::vector is handed a reversed
\* range; the standard libraries answer with std::length_error, which leaves
\* the function before push_back.

\* mutant: an insert that overwrites the entry holding the same identifier
add_vector_to_index_upsert(vecs, dims, cap, vector, id) ==
    IF SizeGE(Len(vecs), cap) THEN [ret |-> -1, threw |-> FALSE, vectors |-> vecs]
    ELSE IF dims < 0 THEN [ret |-> 0, threw |-> TRUE, vectors |-> vecs]
    ELSE IF \E i \in 1..Len(vecs) : vecs[i].id = id
         THEN [ret |-> 0, threw |-> FALSE,
               vectors |-> [i \in 1..Len(vecs) |->
                              IF vecs[i].id = id
                              THEN [id |-> id, vec |-> SubSeq(vector, 1, dims)]
                              ELSE vecs[i]]]
    ELSE [ret |-> 0, threw |-> FALSE,
          vectors |-> Append(vecs, [id |-> id, vec |-> SubSeq(vector, 1, dims)])]

add_vector_to_index(vecs, dims, cap, vector, id) ==
    IF SizeGE(Len(vecs), cap) THEN [ret |-> -1, threw |-> FALSE, vectors |-> vecs]
    ELSE IF dims < 0 THEN [ret |-> 0, threw |-> TRUE, vectors |-> vecs]
    ELSE [ret |-> 0, threw |-> FALSE,
          vectors |-> Append(vecs, [id |-> id, vec |-> SubSeq(vector, 1, dims)])]

\* ---- search_vector_in_index, vector_search.cpp:38-72 ----
\* ids and dists are the slots of the output buffers the call writes.
SearchBody(vecs, dims, q, k, distances) ==
    LET result_count == Min(k, Len(distances))
    IN  [ret   |-> result_count,
         ids   |-> [i \in 1..result_count |-> distances[i].second],
         dists |-> [i \in 1..result_count |-> distances[i].first]]

\* mutant: the upper bound on k is not checked
search_vector_in_index_nomax(vecs, dims, q, k) ==
    IF k <= 0 THEN [ret |-> -1, ids |-> <<>>, dists |-> <<>>]
    ELSE SearchBody(vecs, dims, q, k, SortPairs(ComputeDistances(vecs, q, dims)))

\* mutant: the distances are sorted as an ordered set, dropping repeated pairs
search_vector_in_index_set(vecs, dims, q, k) ==
    IF k <= 0 \/ SizeLT(Len(vecs), k) THEN [ret |-> -1, ids |-> <<>>, dists |-> <<>>]
    ELSE SearchBody(vecs, dims, q, k, SortPairs_unique(ComputeDistances(vecs, q, dims)))

search_vector_in_index(vecs, dims, q, k) ==
    IF k <= 0 \/ SizeLT(Len(vecs), k) THEN [ret |-> -1, ids |-> <<>>, dists |-> <<>>]
    ELSE SearchBody(vecs, dims, q, k, SortPairs(ComputeDistances(vecs, q, dims)))

\* ---- state machine ----
Init ==
    /\ handle = "none"
    /\ dimensions = 0
    /\ max_elements = 0
    /\ vectors = <<>>
    /\ call = NoCall
    /\ result_ids = <<>>
    /\ result_distances = <<>>
    /\ py_raised = FALSE
    /\ py_list = <<>>
    /\ releases = 0
    /\ crashed = FALSE

\* every call starts from output buffers of its own: the variables hold what
\* the last call wrote and reported, nothing of earlier calls
NoResults ==
    /\ result_ids' = <<>>
    /\ result_distances' = <<>>
    /\ py_raised' = FALSE
    /\ py_list' = <<>>

\* the caller is between two calls: it has looked at the outcome of the last one
Idle == call.op \in {"none", "create", "returned", "destroy", "py_destructor"}

\* the caller reads the outcome of an insert or a search and moves on
Return ==
    /\ call.op \in {"add", "search", "py_add_vector", "py_search"}
    /\ call' = [NoCall EXCEPT !.op = "returned"]
    /\ NoResults
    /\ UNCHANGED <<handle, dimensions, max_elements, vectors, releases, crashed>>

\* create_hnsw_index (also reached through PyHNSWIndex's constructor)
create_hnsw_index ==
    /\ handle = "none"
    /\ ~crashed
    /\ \E d \in DimChoices, c \in CapChoices :
          /\ dimensions' = d
          /\ max_elements' = c
          /\ call' = [NoCall EXCEPT !.op = "create"]
    /\ handle' = "live"
    /\ vectors' = <<>>
    /\ NoResults
    /\ UNCHANGED <<releases, crashed>>

AddVector ==
    /\ handle = "live"
    /\ ~crashed
    /\ Idle
    /\ \E vector \in InputVectors(dimensions), id \in Ids :
          LET r == add_vector_to_index(vectors, dimensions, max_elements, vector, id)
          IN  /\ Len(r.vectors) <= MaxEntries
              /\ vectors' = r.vectors
              /\ call' = [op |-> "add", id |-> id, vector |-> vector, k |-> 0,
                          ret |-> r.ret, threw |-> r.threw]
    /\ NoResults
    /\ UNCHANGED <<handle, dimensions, max_elements, releases, crashed>>

\* mutant: a search that sorts the index itself by distance to the query
SearchVector_inplace ==
    /\ handle = "live"
    /\ ~crashed
    /\ Idle
    /\ \E q \in QueryVectors(dimensions), k \in KChoices :
          LET r == search_vector_in_index(vectors, dimensions, q, k)
              d == ComputeDistances(vectors, q, dimensions)
          IN  /\ call' = [op |-> "search", id |-> 0, vector |-> q, k |-> k,
                          ret |-> r.ret, threw |-> FALSE]
              /\ result_ids' = r.ids
              /\ result_distances' = r.dists
              /\ vectors' = IF Len(vectors) >= 2 /\ PairLess(d[2], d[1])
                            THEN <<vectors[2], vectors[1]>> \o SubSeq(vectors, 3, Len(vectors))
                            ELSE vectors
    /\ py_raised' = FALSE
    /\ py_list' = <<>>
    /\ UNCHANGED <<handle, dimensions, max_elements, releases, crashed>>

SearchVector ==
    /\ handle = "live"
    /\ ~crashed
    /\ Idle
    /\ \E q \in QueryVectors(dimensions), k \in KChoices :
          LET r == search_vector_in_index(vectors, dimensions, q, k)
          IN  /\ call' = [op |-> "search", id |-> 0, vector |-> q, k |-> k,
                          ret |-> r.ret, threw |-> FALSE]
              /\ result_ids' = r.ids
              /\ result_distances' = r.dists
    /\ py_raised' = FALSE
    /\ py_list' = <<>>
    /\ UNCHANGED <<handle, dimensions, max_elements, vectors, releases, crashed>>

\* destroy_hnsw_index: `delete index`.  On a handle already deleted this is a
\* double delete: the allocator aborts the process or the heap is silently
\* corrupted.
destroy_hnsw_index ==
    /\ handle \in {"live", "freed"}
    /\ ~crashed
    /\ Idle
    /\ releases < MaxReleases
    /\ releases' = releases + 1
    /\ crashed' \in (IF handle = "freed" THEN BOOLEAN ELSE {FALSE})
    /\ handle' = "freed"
    /\ dimensions' = 0
    /\ max_elements' = 0
    /\ vectors' = <<>>
    /\ call' = [NoCall EXCEPT !.op = "destroy"]
    /\ NoResults

\* PyHNSWIndex::add_vector: the return value of add_vector_to_index is dropped
PyAddVector ==
    /\ handle = "live"
    /\ ~crashed
    /\ Idle
    /\ \E vector \in InputVectors(dimensions), id \in Ids :
          LET r == add_vector_to_index(vectors, dimensions, max_elements, vector, id)
          IN  /\ Len(r.vectors) <= MaxEntries
              /\ vectors' = r.vectors
              /\ call' = [op |-> "py_add_vector", id |-> id, vector |-> vector, k |-> 0,
                          ret |-> r.ret, threw |-> r.threw]
              /\ py_raised' = r.threw
    /\ py_list' = <<>>
    /\ result_ids' = <<>>
    /\ result_distances' = <<>>
    /\ UNCHANGED <<handle, dimensions, max_elements, releases, crashed>>

\* PyHNSWIndex::search: std::vector<int>(k) throws for k < 0; otherwise the
\* list holds one dict per i < count, so count = -1 yields an empty list.
PySearch ==
    /\ handle = "live"
    /\ ~crashed
    /\ Idle
    /\ \E q \in QueryVectors(dimensions), k \in KChoices :
          IF k < 0
          THEN /\ call' = [op |-> "py_search", id |-> 0, vector |-> q, k |-> k,
                           ret |-> 0, threw |-> TRUE]
               /\ py_raised' = TRUE
               /\ py_list' = <<>>
               /\ result_ids' = <<>>
               /\ result_distances' = <<>>
          ELSE LET r == search_vector_in_index(vectors, dimensions, q, k)
               IN  /\ call' = [op |-> "py_search", id |-> 0, vector |-> q, k |-> k,
                               ret |-> r.ret, threw |-> FALSE]
                   /\ result_ids' = r.ids
                   /\ result_distances' = r.dists
                   /\ py_raised' = FALSE
                   /\ py_list' = [i \in 1..r.ret |->
                                    [id |-> r.ids[i], distance |-> r.dists[i]]]
    /\ UNCHANGED <<handle, dimensions, max_elements, vectors, releases, crashed>>

\* PyHNSWIndex::~PyHNSWIndex: runs once, `if (index) destroy_hnsw_index(index)`
PyDestructor ==
    /\ handle = "live"
    /\ ~crashed
    /\ Idle
    /\ releases < MaxReleases
    /\ releases' = releases + 1
    /\ handle' = "freed"
    /\ dimensions' = 0
    /\ max_elements' = 0
    /\ vectors' = <<>>
    /\ call' = [NoCall EXCEPT !.op = "py_destructor"]
    /\ NoResults
    /\ UNCHANGED crashed

Next ==
    \/ create_hnsw_index
    \/ AddVector
    \/ SearchVector
    \/ destroy_hnsw_index
    \/ PyAddVector
    \/ PySearch
    \/ PyDestructor
    \/ Return

Spec == Init /\ [][Next]_vars

\* ---- vocabulary of the properties ----
IsAdd(c) == c.op \in {"add", "py_add_vector"}
\* a call of search_vector_in_index (PyHNSWIndex::search makes none for k < 0)
IsSearch(c) == c.op = "search" \/ (c.op = "py_search" /\ ~c.threw)
Succeeded(c) == c.ret >= 0 /\ ~c.threw

\* the index was constructed within the precondition of create
ValidIndex == handle = "live" /\ dimensions > 0 /\ max_elements > 0

Range(s) == {s[i] : i \in DOMAIN s}
BagOfSeq(s) == [x \in Range(s) |-> Cardinality({i \in DOMAIN s : s[i] = x})]

\* d is the fixed-point square root of the sum of squared differences of the
\* first dims components
RECURSIVE SumOver(_, _)
SumOver(f, S) ==
    IF S = {} THEN 0
    ELSE LET x == CHOOSE y \in S : TRUE IN f[x] + SumOver(f, S \ {x})
IsDistance(d, q, v, dims) ==
    LET sq == [i \in 1..dims |-> (q[i] - v[i]) * (q[i] - v[i])]
        total == Scale * Scale * SumOver(sq, 1..dims)
    IN  d >= 0 /\ d * d <= total /\ (d + 1) * (d + 1) > total

\* the ways of reading the result as distinct stored entries: result slot i is
\* the entry at position f[i], with its identifier and its distance
Readings ==
    {f \in [1..Len(result_ids) -> 1..Len(vectors)] :
        /\ \A i, j \in DOMAIN f : i # j => f[i] # f[j]
        /\ \A i \in DOMAIN f :
              /\ vectors[f[i]].id = result_ids[i]
              /\ IsDistance(result_distances[i], call.vector, vectors[f[i]].vec, dimensions)}
LeftOut(f) == (1..Len(vectors)) \ Range(f)
DistanceAt(p) == EuclideanDistance(call.vector, vectors[p].vec, dimensions)

\* ---- C1 ----
\* C1: the stored count never exceeds the capacity given at construction, and
\* an insert attempted when the count equals the capacity returns -1 and
\* leaves the entries unchanged.
C1_CapacityNeverExceeded ==
    /\ [](handle = "live" => Len(vectors) <= max_elements)
    /\ [][(IsAdd(call') /\ Len(vectors) = max_elements)
            => (call'.ret = -1 /\ vectors' = vectors)]_vars

\* ---- C2 ----
\* C2: returned entries with equal distances appear in insertion order, and of
\* a tie straddling the k-th position the earlier-inserted entry is returned
\* (stated for indexes constructed with positive dimensions and capacity).
C2_TiesInInsertionOrder ==
    (IsSearch(call) /\ call.ret >= 1 /\ ValidIndex) =>
        \E f \in Readings :
            /\ \A i, j \in DOMAIN f :
                  (i < j /\ result_distances[i] = result_distances[j]) => f[i] < f[j]
            /\ \A i \in DOMAIN f : \A p \in LeftOut(f) :
                  DistanceAt(p) = result_distances[i] => f[i] < p

\* ---- C3 ----
\* C3: a search with k <= 0 or k above the stored count returns -1 and writes
\* nothing to the output buffers; with 1 <= k <= stored count it returns k and
\* writes k slots of each buffer.
C3_KBounds ==
    IsSearch(call) =>
        /\ (call.k <= 0 \/ call.k > Len(vectors)) =>
              (call.ret = -1 /\ result_ids = <<>> /\ result_distances = <<>>)
        /\ (call.k >= 1 /\ call.k <= Len(vectors)) =>
              (call.ret = call.k /\ Len(result_ids) = call.k
                 /\ Len(result_distances) = call.k)
C3_Witness ==
    /\ call.op = "search"
    /\ Len(vectors) >= 1
    /\ call.k = Len(vectors) + 1
    /\ call.ret = -1

\* ---- C4 ----
\* C4: a successful search returns distances in non-decreasing order, each the
\* Euclidean distance of a distinct stored entry carrying the identifier
\* returned with it, and no entry left out is strictly closer to the query
\* than a returned one.
C4_NearestInOrder ==
    (IsSearch(call) /\ call.ret >= 1) =>
        /\ \A i, j \in 1..call.ret :
              i < j => result_distances[i] <= result_distances[j]
        /\ \E f \in Readings :
              \A i \in DOMAIN f : \A p \in LeftOut(f) :
                  DistanceAt(p) >= result_distances[i]
C4_Witness ==
    /\ call.op = "search"
    /\ call.ret = 2
    /\ result_distances[1] < result_distances[2]
    /\ result_ids[1] = vectors[2].id
    /\ vectors[1].id # vectors[2].id

\* ---- C5 ----
\* C5: a successful insert appends exactly one entry made of the identifier
\* and the first `dimensions` components of the buffer; every earlier entry
\* keeps its identifier, vector and position, duplicate identifier or not.
C5_InsertAppends ==
    [][(IsAdd(call') /\ call'.ret = 0 /\ ~call'.threw) =>
          /\ Len(vectors') = Len(vectors) + 1
          /\ \A i \in 1..Len(vectors) : vectors'[i] = vectors[i]
          /\ vectors'[Len(vectors')].id = call'.id
          /\ Len(vectors'[Len(vectors')].vec) = dimensions
          /\ \A j \in 1..dimensions :
                vectors'[Len(vectors')].vec[j] = call'.vector[j]]_vars
C5_Witness ==
    /\ call.op = "add"
    /\ call.ret = 0
    /\ Len(vectors) = 2
    /\ vectors[1].id = vectors[2].id
    /\ vectors[1].vec # vectors[2].vec
    /\ dimensions >= 1
    /\ Len(call.vector) > dimensions

\* ---- C6 ----
\* C6: a search, accepted or rejected, leaves dimensions, capacity and the
\* ordered sequence of entries exactly as they were.
C6_SearchDoesNotMutate ==
    [][(call'.op \in {"search", "py_search"}) =>
          /\ vectors' = vectors
          /\ dimensions' = dimensions
          /\ max_elements' = max_elements]_vars
C6_Witness ==
    /\ call.op = "search"
    /\ call.ret = 1
    /\ Len(vectors) = 2
    /\ result_ids[1] = vectors[2].id
    /\ DistanceAt(2) < DistanceAt(1)

\* ---- C7 ----
\* C7: create with dimensions <= 0 or capacity <= 0 constructs no index, so
\* every index has a positive dimensionality and a positive capacity.
C7_CreateValidates ==
    handle = "live" => (dimensions > 0 /\ max_elements > 0)

\* ---- C8 ----
\* C8: through PyHNSWIndex an insert into a full index and a search with an
\* out-of-range k are reported to the caller as errors (stated for indexes
\* constructed with positive dimensions and capacity).
C8_BindingReportsErrors ==
    ValidIndex =>
        /\ (call.op = "py_add_vector" /\ call.ret = -1) => py_raised
        /\ (call.op = "py_search" /\ (call.k <= 0 \/ call.k > Len(vectors))) => py_raised

\* ---- C9 ----
\* C9: a destroy issued after the index was destroyed is a no-op: the index is
\* never released a second time and the process goes on.
C9_DestroyIdempotent ==
    releases <= 1 /\ ~crashed

\* ---- C10 ----
\* C10: after m successful insertions a search with k = m returns m results
\* whose identifiers are, as a multiset, the identifiers inserted.
C10_RoundTrip ==
    (IsSearch(call) /\ Len(vectors) >= 1 /\ call.k = Len(vectors)) =>
        /\ call.ret = Len(vectors)
        /\ Len(result_ids) = Len(vectors)
        /\ BagOfSeq(result_ids) = BagOfSeq([i \in 1..Len(vectors) |-> vectors[i].id])
C10_Witness ==
    /\ call.op = "search"
    /\ Len(vectors) = 2
    /\ call.k = 2
    /\ vectors[1] = vectors[2]
    /\ max_elements = 2
====
